---- MODULE Spec2Model ----
(***************************************************************************)
(* The agent turn of src/agent.py (run_agent driving the LangGraph graph   *)
(* chatbot <-> tools over a MemorySaver checkpoint) and the /chat          *)
(* streaming handler of src/app.py.                                        *)
(*                                                                         *)
(* A user input is abstracted to the two numbers validate_input reads:     *)
(* len(user_input) and len(user_input.strip()).  Message ids (uuid4, the   *)
(* model's run ids and tool-call ids) are fresh numbers from one counter.  *)
(***************************************************************************)
EXTENDS Integers, Sequences, FiniteSets, TLC

\* ----------------------------------------------------------------- bounds
MaxTurns == 2        \* run_agent calls in one run of the model
MaxRounds == 2       \* tool rounds the model requests in one run (Spec)
MaxChunks == 1       \* content chunks one model call streams
MaxToolErrors == 1   \* tool executions that raise in one run
MaxRequests == 4     \* /chat requests in one run (ChatSpec)

\* -------------------------------------------------------- program constants
MAX_INPUT_LENGTH == 10000
\* langgraph's default config["recursion_limit"]: run_agent passes none
RECURSION_LIMIT == 25

Threads == {"t1", "t2"}
LoopThreads == {"t1"}

\* thread_id absent from the request body
NoThread == "None"
\* str(uuid.uuid4()) of the k-th request
UuidNames == <<"uuid-1", "uuid-2", "uuid-3", "uuid-4", "uuid-5">>

tools == <<"tavily_search", "web_scraper_tool", "create_geological_images",
           "generate_quiz_questions">>

\* the tool-call lists the model answers with
CallChoices == { <<"tavily_search">>,
                 <<"tavily_search", "create_geological_images">> }
LoopCallChoices == { <<"tavily_search">> }

InputLens == {0, MAX_INPUT_LENGTH, MAX_INPUT_LENGTH + 1}
Inputs == UNION { { [len |-> l, stripped |-> s] : s \in {0, l} } : l \in InputLens }
NoInput == [len |-> 0, stripped |-> 0]

NoId == 0

VARIABLES
  store,       \* thread_id -> the "messages" channel of the latest checkpoint
  pc,          \* "idle", or the graph node about to run: "chatbot" | "tools"
  tid,         \* thread_id of the current (or last) run_agent call
  inp,         \* user_input of the current (or last) run_agent call
  step,        \* supersteps the graph has run in this invocation
  chunks,      \* content chunks streamed so far by the model call in progress
  out,         \* what run_agent has yielded in the current (or last) call
  last,        \* "none" | "rejected" | "running" | "ok" | "failed"
  nextId,      \* next fresh id
  firstId,     \* nextId when the current (or last) call began
  turnNo,      \* run_agent calls so far
  modelCalls,  \* llm.invoke calls of the current (or last) run_agent call
  toolCalls,   \* tool executions of the current (or last) run_agent call
  rounds,      \* tool rounds requested so far in the run
  toolErrs,    \* tool executions that raised so far in the run
  chan,        \* the "messages" channel inside the running graph invocation
  pcB,         \* a second, overlapping run_agent call: "idle" | "chatbot"
  tidB,        \* its thread_id
  inpB,        \* its user_input
  chanB,       \* the "messages" channel inside its graph invocation
  outB,        \* what it has yielded
  lastB,       \* its outcome, as last
  firstIdB,    \* nextId when it began
  chatPc,      \* event_stream: "idle" | "started" | "done"
  chatReq,     \* the ChatRequest being served
  chatTid,     \* thread_id the handler uses
  frames,      \* SSE frames sent for the request
  served       \* /chat requests so far

agentVars == <<store, pc, tid, inp, step, chunks, out, last, nextId, firstId,
               turnNo, modelCalls, toolCalls, rounds, toolErrs, chan>>
bVars == <<pcB, tidB, inpB, chanB, outB, lastB, firstIdB>>
chatVars == <<chatPc, chatReq, chatTid, frames, served>>
vars == <<agentVars, bVars, chatVars>>

\* ---------------------------------------------------------------- messages
Msg(id, role, input, text, calls, cid, name, err) ==
  [id |-> id, role |-> role, input |-> input, text |-> text, calls |-> calls,
   cid |-> cid, name |-> name, err |-> err]

\* ("system", SYSTEM_PROMPT): a tuple, so a message without an id
SystemMsg == Msg(NoId, "system", NoInput, <<>>, <<>>, NoId, "", FALSE)
\* ("user", user_input)
UserMsg(u) == Msg(NoId, "user", u, <<>>, <<>>, NoId, "", FALSE)
\* the AIMessage llm.invoke returns; it carries the run id
AIMsg(id, text, calls) == Msg(id, "assistant", NoInput, text, calls, NoId, "", FALSE)
\* the ToolMessage ToolNode builds for one tool call
ToolMsg(call, err) == Msg(NoId, "tool", NoInput, <<>>, <<>>, call.cid, call.name, err)

\* -------------------------------------------------------------- add_messages
RECURSIVE AssignIds(_, _)
AssignIds(ms, n) ==
  IF ms = <<>> THEN <<>>
  ELSE IF Head(ms).id = NoId
       THEN <<[Head(ms) EXCEPT !.id = n]>> \o AssignIds(Tail(ms), n + 1)
       ELSE <<Head(ms)>> \o AssignIds(Tail(ms), n)

NumMissing(ms) == Cardinality({i \in DOMAIN ms : ms[i].id = NoId})

RECURSIVE Merge(_, _)
Merge(merged, right) ==
  IF right = <<>> THEN merged
  ELSE LET m == Head(right)
           hit == {i \in DOMAIN merged : merged[i].id = m.id}
       IN IF hit # {}
          THEN Merge([merged EXCEPT ![CHOOSE i \in hit : TRUE] = m], Tail(right))
          ELSE Merge(Append(merged, m), Tail(right))

\* the reducer of State.messages: ids are assigned to the messages that have
\* none, a message whose id is already in the list replaces it in place, any
\* other message is appended
add_messages(left, right, n) == Merge(left, AssignIds(right, n))

\* ------------------------------------------------------------ validate_input
\* validate_input with the length test off by one
validate_input_ge(u) ==
  IF u.len = 0 THEN <<FALSE, "Error: No input provided">>
  ELSE IF u.stripped = 0 THEN <<FALSE, "Error: Input is empty or only whitespace">>
  ELSE IF u.len >= MAX_INPUT_LENGTH
       THEN <<FALSE, "Error: Input exceeds maximum length">>
       ELSE <<TRUE, "">>

validate_input(u) ==
  IF u.len = 0 THEN <<FALSE, "Error: No input provided">>
  ELSE IF u.stripped = 0 THEN <<FALSE, "Error: Input is empty or only whitespace">>
  ELSE IF u.len > MAX_INPUT_LENGTH
       THEN <<FALSE, "Error: Input exceeds maximum length">>
       ELSE <<TRUE, "">>

\* one yield of run_agent
Out(kind, msg, n) == [kind |-> kind, msg |-> msg, n |-> n]

\* --------------------------------------------------------------- run_agent
\* a rejection that has already recorded the user message
RejectStoresInput(t, u, msg) ==
  /\ out' = <<Out("invalid", msg, 0)>>
  /\ last' = "rejected"
  /\ pc' = "idle"
  /\ chan' = add_messages(store[t], <<UserMsg(u)>>, nextId)
  /\ store' = [store EXCEPT ![t] = chan']
  /\ nextId' = nextId + 1
  /\ UNCHANGED <<step, chunks>>

\* lines 315-317: the error message is yielded and the generator returns
Reject(t, u, msg) ==
  /\ out' = <<Out("invalid", msg, 0)>>
  /\ last' = "rejected"
  /\ pc' = "idle"
  /\ UNCHANGED <<store, chan, nextId, step, chunks>>

\* a turn that starts from the new messages alone
BeginForgetsHistory(t, u) ==
  LET messages == <<SystemMsg, UserMsg(u)>>
  IN /\ chan' = AssignIds(messages, nextId)
     /\ store' = [store EXCEPT ![t] = chan']
     /\ nextId' = nextId + NumMissing(messages)
     /\ out' = <<>>
     /\ last' = "running"
     /\ pc' = "chatbot"
     /\ step' = 0
     /\ chunks' = <<>>

\* a turn that resends the history as messages without ids
BeginResendsCopies(t, u) ==
  LET history == [i \in DOMAIN store[t] |-> [store[t][i] EXCEPT !.id = NoId]]
      messages == <<SystemMsg>> \o history \o <<UserMsg(u)>>
  IN /\ chan' = add_messages(store[t], messages, nextId)
     /\ store' = [store EXCEPT ![t] = chan']
     /\ nextId' = nextId + NumMissing(messages)
     /\ out' = <<>>
     /\ last' = "running"
     /\ pc' = "chatbot"
     /\ step' = 0
     /\ chunks' = <<>>

\* a turn whose graph config names one thread whatever the caller passed
BeginOnOneThread(t, u) ==
  LET history == store["t1"]
      messages == <<SystemMsg>> \o history \o <<UserMsg(u)>>
  IN /\ chan' = add_messages(store["t1"], messages, nextId)
     /\ store' = [store EXCEPT !["t1"] = chan']
     /\ nextId' = nextId + NumMissing(messages)
     /\ out' = <<>>
     /\ last' = "running"
     /\ pc' = "chatbot"
     /\ step' = 0
     /\ chunks' = <<>>

\* lines 319-333: the history is read back from the checkpoint, the message
\* list is built and handed to the graph, whose input step folds it into the
\* messages channel with add_messages and saves the input checkpoint
Begin(t, u) ==
  LET history == store[t]
      messages == <<SystemMsg>> \o history \o <<UserMsg(u)>>
  IN /\ chan' = add_messages(store[t], messages, nextId)
     /\ store' = [store EXCEPT ![t] = chan']
     /\ nextId' = nextId + NumMissing(messages)
     /\ out' = <<>>
     /\ last' = "running"
     /\ pc' = "chatbot"
     /\ step' = 0
     /\ chunks' = <<>>

run_agent(t, u) ==
  /\ pc = "idle"
  /\ tid' = t
  /\ inp' = u
  /\ turnNo' = turnNo + 1
  /\ firstId' = nextId
  /\ modelCalls' = 0
  /\ toolCalls' = 0
  /\ LET v == validate_input(u)
     IN IF ~v[1] THEN Reject(t, u, v[2]) ELSE Begin(t, u)
  /\ UNCHANGED <<rounds, toolErrs, bVars, chatVars>>

\* the loop runs a superstep only while its step counter has not passed
\* stop = start + recursion_limit + 1: recursion_limit + 1 supersteps at most,
\* so the limit always falls after a tools step (chatbot runs the odd ones)
MayRun == step <= RECURSION_LIMIT

\* on_chat_model_stream with non-empty content: the chunk is yielded
ChatbotStream ==
  /\ pc = "chatbot"
  /\ MayRun
  /\ Len(chunks) < MaxChunks
  /\ chunks' = Append(chunks, Len(chunks) + 1)
  /\ out' = Append(out, Out("token", "", Len(chunks) + 1))
  /\ UNCHANGED <<store, chan, pc, tid, inp, step, last, nextId, firstId, turnNo,
                 modelCalls, toolCalls, rounds, toolErrs, bVars, chatVars>>

\* a chatbot node whose answer never reaches the channel
ChatbotAnswersUnsaved ==
  /\ pc = "chatbot"
  /\ step <= RECURSION_LIMIT
  /\ modelCalls' = modelCalls + 1
  /\ step' = step + 1
  /\ pc' = "idle"
  /\ last' = "ok"
  /\ UNCHANGED <<store, chan, nextId, tid, inp, chunks, out, firstId, turnNo, toolCalls,
                 rounds, toolErrs, bVars, chatVars>>

\* chatbot returns {"messages": [AIMessage]}; the checkpoint of the step is
\* saved; tools_condition routes to END when the message has no tool calls
ChatbotAnswers ==
  /\ pc = "chatbot"
  /\ MayRun
  /\ chan' = add_messages(chan, <<AIMsg(nextId, chunks, <<>>)>>, nextId + 1)
  /\ store' = [store EXCEPT ![tid] = chan']
  /\ nextId' = nextId + 1
  /\ modelCalls' = modelCalls + 1
  /\ step' = step + 1
  /\ pc' = "idle"
  /\ last' = "ok"
  /\ UNCHANGED <<tid, inp, chunks, out, firstId, turnNo, toolCalls, rounds,
                 toolErrs, bVars, chatVars>>

\* the model answers with tool calls and no text: tools_condition routes to
\* the tools node
ChatbotCalls(names) ==
  /\ pc = "chatbot"
  /\ MayRun
  /\ chunks = <<>>
  /\ \A i \in DOMAIN names : \E k \in DOMAIN tools : tools[k] = names[i]
  /\ LET calls == [i \in 1..Len(names) |-> [name |-> names[i], cid |-> nextId + i]]
     IN /\ chan' = add_messages(chan, <<AIMsg(nextId, <<>>, calls)>>, nextId + 1)
        /\ store' = [store EXCEPT ![tid] = chan']
  /\ nextId' = nextId + 1 + Len(names)
  /\ modelCalls' = modelCalls + 1
  /\ rounds' = rounds + 1
  /\ step' = step + 1
  /\ pc' = "tools"
  /\ UNCHANGED <<tid, inp, chunks, out, last, firstId, turnNo, toolCalls,
                 toolErrs, bVars, chatVars>>

\* a failure that is reported while the graph goes on with the node
ChatbotFailsContinues ==
  /\ pc = "chatbot"
  /\ step <= RECURSION_LIMIT
  /\ modelCalls' = modelCalls + 1
  /\ out' = Append(out, Out("exception", "Error in chatbot node", 0))
  /\ last' = "failed"
  /\ UNCHANGED <<store, chan, pc, tid, inp, step, chunks, nextId, firstId, turnNo,
                 toolCalls, rounds, toolErrs, bVars, chatVars>>

\* a failure that leaves the text streamed so far in the channel
ChatbotFailsKeepsPartial ==
  /\ pc = "chatbot"
  /\ step <= RECURSION_LIMIT
  /\ chan' = add_messages(chan, <<AIMsg(nextId, chunks, <<>>)>>, nextId + 1)
  /\ store' = [store EXCEPT ![tid] = chan']
  /\ nextId' = nextId + 1
  /\ modelCalls' = modelCalls + 1
  /\ out' = Append(out, Out("exception", "Error in chatbot node", 0))
  /\ pc' = "idle"
  /\ last' = "failed"
  /\ UNCHANGED <<tid, inp, step, chunks, firstId, turnNo, toolCalls, rounds,
                 toolErrs, bVars, chatVars>>

\* llm.invoke raises: chatbot re-raises RuntimeError, astream_events raises
\* it into run_agent, whose except clause yields the message; nothing of the
\* step is written
ChatbotFails ==
  /\ pc = "chatbot"
  /\ MayRun
  /\ modelCalls' = modelCalls + 1
  /\ out' = Append(out, Out("exception", "Error in chatbot node", 0))
  /\ pc' = "idle"
  /\ last' = "failed"
  /\ UNCHANGED <<store, chan, tid, inp, step, chunks, nextId, firstId, turnNo,
                 toolCalls, rounds, toolErrs, bVars, chatVars>>

\* the tool calls of the last message of the channel
PendingCalls == chan[Len(chan)].calls

\* on_tool_end of create_geological_images: "Image created: ..." is yielded
RECURSIVE ImageYields(_, _, _)
ImageYields(calls, raised, i) ==
  IF i > Len(calls) THEN <<>>
  ELSE (IF calls[i].name = "create_geological_images" /\ i \notin raised
        THEN <<Out("image", "Image created", calls[i].cid)>> ELSE <<>>)
       \o ImageYields(calls, raised, i + 1)

\* a tools node that lets the exception of a tool out of the graph
ToolNodePropagates(raised) ==
  LET calls == PendingCalls
      results == [i \in 1..Len(calls) |-> ToolMsg(calls[i], FALSE)]
  IN /\ pc = "tools"
     /\ step <= RECURSION_LIMIT
     /\ raised \subseteq 1..Len(calls)
     /\ toolCalls' = toolCalls + Len(calls)
     /\ toolErrs' = toolErrs + Cardinality(raised)
     /\ IF raised = {}
        THEN /\ chan' = add_messages(chan, results, nextId)
             /\ store' = [store EXCEPT ![tid] = chan']
             /\ nextId' = nextId + Len(calls)
             /\ out' = out \o ImageYields(calls, raised, 1)
             /\ step' = step + 1
             /\ pc' = "chatbot"
             /\ last' = last
        ELSE /\ out' = Append(out, Out("exception", "tool raised", 0))
             /\ pc' = "idle"
             /\ last' = "failed"
             /\ UNCHANGED <<store, chan, nextId, step>>
     /\ chunks' = <<>>
     /\ UNCHANGED <<tid, inp, firstId, turnNo, modelCalls, rounds, bVars, chatVars>>

\* a tools node that writes no message for a call that raised
ToolNodeDropsFailed(raised) ==
  LET calls == PendingCalls
      results == [i \in 1..Len(calls) |-> ToolMsg(calls[i], FALSE)]
      kept == SelectSeq(results, LAMBDA m :
                 \A i \in raised : calls[i].cid # m.cid)
  IN /\ pc = "tools"
     /\ step <= RECURSION_LIMIT
     /\ raised \subseteq 1..Len(calls)
     /\ chan' = add_messages(chan, kept, nextId)
     /\ store' = [store EXCEPT ![tid] = chan']
     /\ nextId' = nextId + Len(kept)
     /\ toolCalls' = toolCalls + Len(calls)
     /\ toolErrs' = toolErrs + Cardinality(raised)
     /\ out' = out \o ImageYields(calls, raised, 1)
     /\ step' = step + 1
     /\ chunks' = <<>>
     /\ pc' = "chatbot"
     /\ UNCHANGED <<tid, inp, last, firstId, turnNo, modelCalls, rounds, bVars, chatVars>>

\* the tool calls of the AIMessages of a message list, in order
RECURSIVE CallsOf(_)
CallsOf(ms) ==
  IF ms = <<>> THEN <<>> ELSE Head(ms).calls \o CallsOf(Tail(ms))

\* a tools node that runs the calls of every AIMessage of the channel
ToolNodeRunsEveryCall(raised) ==
  LET calls == CallsOf(chan)
      results == [i \in 1..Len(calls) |-> ToolMsg(calls[i], i \in raised)]
  IN /\ pc = "tools"
     /\ step <= RECURSION_LIMIT
     /\ raised \subseteq 1..Len(PendingCalls)
     /\ chan' = add_messages(chan, results, nextId)
     /\ store' = [store EXCEPT ![tid] = chan']
     /\ nextId' = nextId + Len(calls)
     /\ toolCalls' = toolCalls + Len(calls)
     /\ toolErrs' = toolErrs + Cardinality(raised)
     /\ out' = out \o ImageYields(calls, raised, 1)
     /\ step' = step + 1
     /\ chunks' = <<>>
     /\ pc' = "chatbot"
     /\ UNCHANGED <<tid, inp, last, firstId, turnNo, modelCalls, rounds, bVars, chatVars>>

\* ToolNode(tools): every call of the last AIMessage is executed; a call that
\* raises becomes a ToolMessage with status "error" (handle_tool_errors is
\* left at its default, True in langgraph.prebuilt); the results are written
\* in the order of the calls and the edge tools -> chatbot is taken
ToolNode(raised) ==
  LET calls == PendingCalls
      results == [i \in 1..Len(calls) |-> ToolMsg(calls[i], i \in raised)]
  IN /\ pc = "tools"
     /\ MayRun
     /\ raised \subseteq 1..Len(calls)
     /\ chan' = add_messages(chan, results, nextId)
     /\ store' = [store EXCEPT ![tid] = chan']
     /\ nextId' = nextId + Len(calls)
     /\ toolCalls' = toolCalls + Len(calls)
     /\ toolErrs' = toolErrs + Cardinality(raised)
     /\ out' = out \o ImageYields(calls, raised, 1)
     /\ step' = step + 1
     /\ chunks' = <<>>
     /\ pc' = "chatbot"
     /\ UNCHANGED <<tid, inp, last, firstId, turnNo, modelCalls, rounds, bVars, chatVars>>

\* a graph that stops at the limit without raising: the generator never ends
OutOfStepsIgnored ==
  /\ pc \in {"chatbot", "tools"}
  /\ step > RECURSION_LIMIT
  /\ UNCHANGED vars

\* the step counter has passed stop: GraphRecursionError reaches the except
\* clause of run_agent
OutOfSteps ==
  /\ pc \in {"chatbot", "tools"}
  /\ ~MayRun
  /\ out' = Append(out, Out("exception", "Recursion limit reached", 0))
  /\ pc' = "idle"
  /\ last' = "failed"
  /\ UNCHANGED <<store, chan, tid, inp, step, chunks, nextId, firstId, turnNo,
                 modelCalls, toolCalls, rounds, toolErrs, bVars, chatVars>>

\* ------------------------------------------------- an overlapping call
\* the variables of the first call that a step of the second leaves alone
aLocal == <<pc, tid, inp, step, chunks, out, last, firstId, modelCalls,
            toolCalls, rounds, toolErrs, chan>>

\* run_agent is a coroutine function, so a second call can start on the
\* event loop while the first awaits the model (nothing in lines 302-350
\* holds a lock).  Each graph invocation has its own channel values: they
\* are loaded from the latest checkpoint of the thread when the invocation
\* starts and written back as a new checkpoint after each of its steps, and
\* MemorySaver (line 277) returns the checkpoint written last as the state
\* of the thread.  The model of this call answers without tools
run_agent_B(t, u) ==
  /\ pcB = "idle"
  /\ tidB' = t
  /\ inpB' = u
  /\ turnNo' = turnNo + 1
  /\ firstIdB' = nextId
  /\ LET v == validate_input(u)
         history == store[t]
         messages == <<SystemMsg>> \o history \o <<UserMsg(u)>>
     IN IF ~v[1]
        THEN /\ outB' = <<Out("invalid", v[2], 0)>>
             /\ lastB' = "rejected"
             /\ pcB' = "idle"
             /\ UNCHANGED <<store, chanB, nextId>>
        ELSE /\ chanB' = add_messages(store[t], messages, nextId)
             /\ store' = [store EXCEPT ![t] = chanB']
             /\ nextId' = nextId + NumMissing(messages)
             /\ outB' = <<>>
             /\ lastB' = "running"
             /\ pcB' = "chatbot"
  /\ UNCHANGED <<aLocal, chatVars>>

\* the chatbot node of the second call returns its answer: its channel grows
\* and is saved as the newest checkpoint of the thread
ChatbotAnswersB ==
  /\ pcB = "chatbot"
  /\ chanB' = add_messages(chanB, <<AIMsg(nextId, <<>>, <<>>)>>, nextId + 1)
  /\ store' = [store EXCEPT ![tidB] = chanB']
  /\ nextId' = nextId + 1
  /\ pcB' = "idle"
  /\ lastB' = "ok"
  /\ UNCHANGED <<tidB, inpB, outB, firstIdB, turnNo, aLocal, chatVars>>

\* the model call of the second call raises
ChatbotFailsB ==
  /\ pcB = "chatbot"
  /\ outB' = Append(outB, Out("exception", "Error in chatbot node", 0))
  /\ pcB' = "idle"
  /\ lastB' = "failed"
  /\ UNCHANGED <<store, nextId, tidB, inpB, chanB, firstIdB, turnNo, aLocal,
                 chatVars>>

\* -------------------------------------------------------------- /chat
Frame(type, thread, payload) == [type |-> type, thread_id |-> thread, payload |-> payload]

\* lines 33-39: the thread id is the request's or a new uuid; the start frame
\* is sent
ChatStart(message, thread) ==
  /\ chatPc \in {"idle", "done"}
  /\ chatReq' = [message |-> message, thread_id |-> thread]
  /\ chatTid' = IF thread # NoThread THEN thread ELSE UuidNames[served + 1]
  /\ served' = served + 1
  /\ frames' = <<Frame("start", chatTid', "")>>
  /\ chatPc' = "started"
  /\ UNCHANGED <<agentVars, bVars>>

\* an event_stream whose end frame is sent after the except clause
ChatRunSyncAgentThenEnd ==
  /\ chatPc = "started"
  /\ frames' = frames \o <<Frame("error", chatTid,
                                 "'async_generator' object is not iterable"),
                           Frame("end", chatTid, "")>>
  /\ chatPc' = "done"
  /\ UNCHANGED <<chatReq, chatTid, served, agentVars, bVars>>

\* lines 41-63: run_sync_agent runs in the executor.  run_agent is an async
\* generator function (agent.py:302), so run_agent(...) only creates the
\* generator and the for statement of line 47 raises TypeError
\* ('async_generator' object is not iterable) before any of its body runs;
\* the await re-raises it, the except clause sends the error frame
ChatRunSyncAgent ==
  /\ chatPc = "started"
  /\ frames' = Append(frames, Frame("error", chatTid,
                        "'async_generator' object is not iterable"))
  /\ chatPc' = "done"
  /\ UNCHANGED <<chatReq, chatTid, served, agentVars, bVars>>

\* ------------------------------------------------------------ specifications
Init ==
  /\ store = [t \in Threads |-> <<>>]
  /\ pc = "idle"
  /\ tid = "t1"
  /\ inp = NoInput
  /\ step = 0
  /\ chunks = <<>>
  /\ out = <<>>
  /\ last = "none"
  /\ nextId = 1
  /\ firstId = 1
  /\ turnNo = 0
  /\ modelCalls = 0
  /\ toolCalls = 0
  /\ rounds = 0
  /\ toolErrs = 0
  /\ chan = <<>>
  /\ pcB = "idle"
  /\ tidB = "t1"
  /\ inpB = NoInput
  /\ chanB = <<>>
  /\ outB = <<>>
  /\ lastB = "none"
  /\ firstIdB = 1
  /\ chatPc = "idle"
  /\ chatReq = [message |-> NoInput, thread_id |-> NoThread]
  /\ chatTid = NoThread
  /\ frames = <<>>
  /\ served = 0

StartTurn == \E t \in Threads, u \in Inputs : turnNo < MaxTurns /\ run_agent(t, u)

RequestTools == \E names \in CallChoices : rounds < MaxRounds /\ ChatbotCalls(names)

RunTools ==
  \E raised \in SUBSET (1..2) :
     toolErrs + Cardinality(raised) <= MaxToolErrors /\ ToolNode(raised)

\* turns of direct callers of run_agent, the model asking for at most
\* MaxRounds tool rounds in all; with fewer than 13 rounds no turn reaches
\* the recursion limit, which LoopSpec covers
Next == StartTurn \/ ChatbotStream \/ ChatbotAnswers \/ ChatbotFails
        \/ RequestTools \/ RunTools

Spec == Init /\ [][Next]_vars

\* one turn on a fresh thread, the model free to ask for a tool at every call
StartFresh ==
  \E t \in LoopThreads, u \in Inputs :
     turnNo < MaxTurns /\ store[t] = <<>> /\ run_agent(t, u)

RequestLoop == \E names \in LoopCallChoices : ChatbotCalls(names)

TurnStep == ChatbotAnswers \/ ChatbotFails \/ RequestLoop \/ RunTools \/ OutOfSteps

NextLoop == StartFresh \/ ChatbotStream \/ TurnStep

\* every model call and every tool call returns or raises
LoopSpec == Init /\ [][NextLoop]_vars /\ WF_vars(TurnStep)

ChatRequest == 
  \E message \in Inputs, thread \in Threads \cup {NoThread} :
     served < MaxRequests /\ ChatStart(message, thread)

NextChat == ChatRequest \/ ChatRunSyncAgent

\* the handler runs to its end once the response is being read
ChatSpec == Init /\ [][NextChat]_vars /\ WF_vars(ChatRunSyncAgent)

StartB == \E t \in Threads, u \in Inputs : turnNo < MaxTurns /\ run_agent_B(t, u)

\* one tool round, of one search that returns, in the whole run
RequestOnce == \E names \in LoopCallChoices : rounds = 0 /\ ChatbotCalls(names)

RunToolsOk == ToolNode({})

\* two callers of run_agent whose turns may overlap, on the same thread or
\* on different ones
NextConc == StartTurn \/ ChatbotAnswers \/ ChatbotFails \/ RequestOnce \/ RunToolsOk
            \/ StartB \/ ChatbotAnswersB \/ ChatbotFailsB

ConcSpec == Init /\ [][NextConc]_vars

\* ------------------------------------------------------------------ claims
History(t) == store[t]
ThisTurn(m) == m.id >= firstId

\* C1: after any sequence of turns the stored history of a thread holds no
\* system-role message.
C1_NoSystemMessageStored ==
  pc = "idle" =>
    \A t \in Threads : \A i \in DOMAIN History(t) : History(t)[i].role # "system"

\* the inputs the claim calls invalid
Invalid(u) == u.len = 0 \/ u.stripped = 0 \/ u.len > MAX_INPUT_LENGTH

\* C2: an empty, whitespace-only or over-long input ends the call with exactly
\* one error output, no model call and no tool call; an input of exactly
\* MAX_INPUT_LENGTH non-blank characters is accepted.
C2_InvalidInputFailsFast ==
  turnNo > 0 =>
    /\ Invalid(inp) <=> last = "rejected"
    /\ last = "rejected" =>
         /\ pc = "idle"
         /\ Len(out) = 1
         /\ out[1].kind = "invalid"
         /\ modelCalls = 0
         /\ toolCalls = 0
    /\ (inp.len = MAX_INPUT_LENGTH /\ inp.stripped > 0) => last # "rejected"

C2_Witness ==
  /\ last = "rejected"
  /\ inp.len > MAX_INPUT_LENGTH
  /\ inp.stripped > 0
  /\ \E t \in Threads : \E i \in DOMAIN History(t) :
        History(t)[i].role = "user" /\ History(t)[i].input.len = MAX_INPUT_LENGTH

\* C3: a call rejected by input validation leaves the stored history of every
\* thread unchanged.
C3_RejectedWritesNothing ==
  [][(turnNo' = turnNo + 1 /\ last' = "rejected") => store' = store]_vars

C3_Witness == last = "rejected" /\ History(tid) # <<>>

CausalOrder(h) ==
  \A j \in DOMAIN h :
    h[j].role = "tool" =>
      /\ \E i \in 1..(j - 1) :
           h[i].role = "assistant" /\ \E c \in DOMAIN h[i].calls : h[i].calls[c].cid = h[j].cid
      /\ \A i \in DOMAIN h :
           (\E c \in DOMAIN h[i].calls : h[i].calls[c].cid = h[j].cid) => i < j
      /\ \A k \in DOMAIN h : (h[k].role = "tool" /\ h[k].cid = h[j].cid) => k = j

\* every tool-call request has its result after it
AllAnswered(h) ==
  \A i \in DOMAIN h : \A c \in DOMAIN h[i].calls :
    \E j \in (i + 1)..Len(h) : h[j].role = "tool" /\ h[j].cid = h[i].calls[c].cid

\* C5: in every stored history each tool result is preceded by the request
\* with its correlation id, and whenever the model is about to be invoked
\* every request in the message list has its result after it.
C5_ToolResultsFollowRequests ==
  /\ \A t \in Threads : CausalOrder(History(t))
  /\ pc = "chatbot" => AllAnswered(History(tid))

C5_Witness ==
  /\ pc = "chatbot"
  /\ turnNo = 2
  /\ \E i \in DOMAIN History(tid) :
        /\ ~ThisTurn(History(tid)[i])
        /\ Len(History(tid)[i].calls) = 2
  /\ \E j \in DOMAIN History(tid) :
        ThisTurn(History(tid)[j]) /\ History(tid)[j].role = "tool" /\ History(tid)[j].err

\* C6: a turn on a fresh thread with a valid input reaches a terminal outcome
\* (the end of its output or an error output) whatever the model answers,
\* every model call and tool call returning.
C6_TurnTerminates == [](last = "running" => <>(pc = "idle" /\ last \in {"ok", "failed"}))

C6_Witness ==
  /\ pc = "idle"
  /\ last = "failed"
  /\ step > RECURSION_LIMIT
  /\ out[Len(out)].msg = "Recursion limit reached"

\* C7: a tool that raises yields an error-flagged tool result appended to the
\* history, the graph goes back to the chatbot node and run_agent emits no
\* error output for it.
C7_ToolFailureIsolated ==
  [][toolErrs' > toolErrs =>
       LET h == store[tid]
           h2 == store'[tid]
       IN /\ pc' = "chatbot"
          /\ last' = "running"
          /\ \A i \in DOMAIN out' : out'[i].kind # "exception"
          /\ Len(h2) = Len(h) + Len(PendingCalls)
          /\ SubSeq(h2, 1, Len(h)) = h
          /\ Cardinality({j \in (Len(h) + 1)..Len(h2) :
                            h2[j].role = "tool" /\ h2[j].err}) = toolErrs' - toolErrs
    ]_vars

C7_Witness ==
  /\ pc = "chatbot"
  /\ last = "running"
  /\ \E j \in DOMAIN History(tid) :
        /\ ThisTurn(History(tid)[j])
        /\ History(tid)[j].role = "tool"
        /\ History(tid)[j].err

\* C8: when a model call fails, run_agent emits exactly one error output, it
\* is the last thing it emits, and no further model or tool call is made in
\* that turn.
C8_ModelFailureEndsTurn ==
  /\ [](last = "failed" =>
          /\ pc = "idle"
          /\ Len(out) >= 1
          /\ out[Len(out)].kind = "exception"
          /\ Cardinality({i \in DOMAIN out : out[i].kind = "exception"}) = 1)
  /\ [][(last = "failed" /\ turnNo' = turnNo) =>
          (modelCalls' = modelCalls /\ toolCalls' = toolCalls /\ out' = out)]_vars

C8_Witness ==
  /\ last = "failed"
  /\ toolCalls > 0
  /\ Len(out) >= 2
  /\ out[1].kind = "token"

AnswersOfThisTurn ==
  {i \in DOMAIN History(tid) : History(tid)[i].role = "assistant" /\ ThisTurn(History(tid)[i])}

\* C9 as claimed: after a turn that ended in a failed model call the history
\* holds no assistant message produced during that turn.
C9_NoAssistantMessageOfFailedTurn == last = "failed" => AnswersOfThisTurn = {}

\* C9 amended: after a turn that ended in a failed model call the history
\* holds nothing of the failed call; the assistant messages of that turn in it
\* are the tool-call requests of the rounds completed before the failure, each
\* with its tool results, and there is none when the first call failed.
C9_OnlyCompletedRoundsOfFailedTurn ==
  last = "failed" =>
    /\ Cardinality(AnswersOfThisTurn) = modelCalls - 1
    /\ \A i \in AnswersOfThisTurn :
         LET m == History(tid)[i]
         IN /\ m.calls # <<>>
            /\ m.text = <<>>
            /\ \A c \in DOMAIN m.calls :
                 \E j \in (i + 1)..Len(History(tid)) :
                    History(tid)[j].role = "tool" /\ History(tid)[j].cid = m.calls[c].cid

C9_Witness ==
  /\ last = "failed"
  /\ modelCalls >= 2
  /\ chunks # <<>>
  /\ AnswersOfThisTurn # {}

\* C10: /chat sends the content frame of each chunk as soon as run_agent has
\* produced it.  An invalid message makes run_agent yield exactly one chunk
\* (Reject), so a stream that has ended for such a message has carried a
\* content frame.
C10_ContentFrameForEachChunk ==
  (chatPc = "done" /\ ~validate_input(chatReq.message)[1]) =>
    \E i \in DOMAIN frames : frames[i].type = "content"

\* the chunks run_agent yields for a message that validate_input rejects:
\* the error message, once
RejectedChunks(message) == <<validate_input(message)[2]>>

\* C11: every chunk run_agent yields is delivered as exactly one content
\* frame carrying it unchanged, in the order yielded, between the start frame
\* and the end frame.  For a rejected message the finished stream is therefore
\* start, content(error message), end.
C11_ChunksDeliveredOnceInOrder ==
  (chatPc = "done" /\ ~validate_input(chatReq.message)[1]) =>
    LET cs == RejectedChunks(chatReq.message)
    IN frames = <<Frame("start", chatTid, "")>>
                \o [i \in 1..Len(cs) |-> Frame("content", chatTid, cs[i])]
                \o <<Frame("end", chatTid, "")>>

\* C12: when the agent loop reports an error for the turn (here: the input
\* fails validation), the stream ends with a frame of type error that carries
\* that error, and the error is not sent as a content frame.
C12_AgentErrorInErrorFrame ==
  (chatPc = "done" /\ ~validate_input(chatReq.message)[1]) =>
    LET msg == validate_input(chatReq.message)[2]
    IN /\ frames[Len(frames)] = Frame("error", chatTid, msg)
       /\ \A i \in DOMAIN frames :
            ~(frames[i].type = "content" /\ frames[i].payload = msg)

Terminal(f) == f.type \in {"end", "error"}

\* C13: every /chat stream starts with a start frame and ends with exactly
\* one terminal frame (end or error): a stream that is being sent has no
\* terminal frame yet, it ends, an ended stream has one terminal frame, its
\* last, and nothing is sent on it afterwards.
C13_OneTerminalFrame ==
  /\ [](chatPc # "idle" =>
         /\ frames[1].type = "start"
         /\ \A i \in 2..Len(frames) : frames[i].type # "start"
         /\ chatPc = "started" => \A i \in DOMAIN frames : ~Terminal(frames[i])
         /\ chatPc = "done" =>
              /\ Terminal(frames[Len(frames)])
              /\ Cardinality({i \in DOMAIN frames : Terminal(frames[i])}) = 1)
  /\ [][chatPc = "done" => (frames' = frames \/ served' = served + 1)]_vars
  /\ (chatPc = "started" ~> chatPc = "done")

C13_Witness ==
  /\ chatPc = "done"
  /\ served = 2
  /\ chatReq.thread_id = NoThread
  /\ Len(frames) = 2
  /\ frames[2].type = "error"

\* C14: for every tool call executed in the turn the run has yielded a
\* ToolStarted event before the call and a ToolFinished event after it; the
\* only thing run_agent yields about a tool is the "Image created" line, which
\* is taken here as the ToolFinished event of its call.
C14_ToolEventsForEveryCall ==
  \A j \in DOMAIN History(tid) :
    LET m == History(tid)[j]
    IN (m.role = "tool" /\ ThisTurn(m)) =>
         \E a, b \in DOMAIN out :
            /\ a < b
            /\ out[a].kind = "tool_started" /\ out[a].n = m.cid
            /\ out[b].kind \in {"tool_finished", "image"} /\ out[b].n = m.cid

\* the results stored for the request with correlation id c
ResultsOf(h, c) == {j \in DOMAIN h : h[j].role = "tool" /\ h[j].cid = c}

\* the requests of the current turn that are no longer waiting for the tools
\* node
RequestsRun ==
  LET h == History(tid)
      mine == SelectSeq(h, LAMBDA m : m.role = "assistant" /\ ThisTurn(m))
      all == CallsOf(mine)
  IN IF pc = "tools" THEN Len(all) - Len(PendingCalls) ELSE Len(all)

\* C15: every tool-call request is executed exactly once, in the round in
\* which the model emitted it.  No request ever has two results, and it has
\* one as soon as its round has run; the executions of a turn are as many as
\* the requests the model made in that turn; a step of the tools node runs
\* the calls of the newest request only, none of which had run before; and
\* the start of a later turn, which resends the history, runs nothing.
C15_EachRequestRunOnce ==
  /\ [](/\ \A t \in Threads : \A i \in DOMAIN History(t) :
            \A c \in DOMAIN History(t)[i].calls :
               LET n == Cardinality(ResultsOf(History(t), History(t)[i].calls[c].cid))
               IN IF pc = "tools" /\ t = tid /\ i = Len(History(t))
                  THEN n = 0 ELSE n = 1
        /\ toolCalls = RequestsRun)
  /\ [][/\ toolCalls' > toolCalls =>
             /\ ThisTurn(chan[Len(chan)])
             /\ toolCalls' - toolCalls = Len(PendingCalls)
             /\ \A c \in DOMAIN PendingCalls :
                  /\ ResultsOf(History(tid), PendingCalls[c].cid) = {}
                  /\ Cardinality(ResultsOf(store'[tid], PendingCalls[c].cid)) = 1
        /\ turnNo' > turnNo =>
             /\ toolCalls' = 0
             /\ \A t \in Threads :
                  SelectSeq(store'[t], LAMBDA m : m.role = "tool")
                    = SelectSeq(store[t], LAMBDA m : m.role = "tool")]_vars

\* a second turn on a thread whose first turn ran a tool has run a tool of
\* its own
C15_Witness ==
  /\ turnNo = 2
  /\ pc = "chatbot"
  /\ toolCalls = 1
  /\ \E j \in DOMAIN History(tid) :
        History(tid)[j].role = "tool" /\ ~ThisTurn(History(tid)[j])

\* C16: two turns on the same thread_id, overlapping or not, are serialized:
\* once both have completed the history of the thread holds the user message
\* and the answer of each, the user message before the answer, and the
\* messages of one turn all before those of the other.
C16_OverlappingTurnsSerialized ==
  (pc = "idle" /\ pcB = "idle" /\ last = "ok" /\ lastB = "ok" /\ tid = tidB) =>
    LET h == History(tid)
    IN \E ua, aa, ub, ab \in DOMAIN h :
         /\ h[ua].role = "user" /\ h[ua].id = firstId + 1
         /\ h[aa] = chan[Len(chan)]
         /\ h[ub].role = "user" /\ h[ub].id = firstIdB + 1
         /\ h[ab] = chanB[Len(chanB)]
         /\ ua < aa
         /\ ub < ab
         /\ (aa < ub \/ ab < ua)

\* h occurs in l as one run of consecutive entries
ContainsInOrder(l, h) ==
  \E k \in 0..(Len(l) - Len(h)) : SubSeq(l, k + 1, k + Len(h)) = h

\* C17: the message list the model gets at the start of a turn contains every
\* message the thread had stored, in the stored order, and ends with the new
\* user message; every earlier turn's list ended at that turn's user message,
\* which is in the history, so the new list is strictly longer than each.
C17_HistoryAccumulates ==
  [][(turnNo' = turnNo + 1 /\ last' = "running") =>
       LET h == store[tid']
           l == chan'
       IN /\ ContainsInOrder(l, h)
          /\ Len(l) > Len(h)
          /\ l[Len(l)].role = "user"
          /\ l[Len(l)].input = inp'
          /\ l[Len(l)].id >= firstId'
          /\ \A j \in DOMAIN h : h[j] \in {l[i] : i \in 1..(Len(l) - 1)}
          /\ \A j \in DOMAIN l :
               (l[j].role = "user" /\ l[j].id < firstId') => j < Len(l)]_vars

\* the model is about to be invoked for the second turn of a thread whose
\* first turn completed with a tool round
C17_Witness ==
  /\ turnNo = 2
  /\ pc = "chatbot"
  /\ modelCalls = 0
  /\ Len(chan) >= 7
  /\ \E i, j \in DOMAIN chan :
        /\ i < j
        /\ chan[i].role = "tool" /\ ~ThisTurn(chan[i])
        /\ chan[j].role = "assistant" /\ chan[j].calls = <<>> /\ ~ThisTurn(chan[j])

\* C18: whenever the model is invoked for the first time in a turn, its
\* message list has the system prompt at its first position and nowhere
\* else, and the new user message at its last.
C18_OneSystemPromptFirst ==
  (pc = "chatbot" /\ modelCalls = 0 /\ last = "running") =>
    /\ chan[1].role = "system"
    /\ \A i \in 2..Len(chan) : chan[i].role # "system"
    /\ chan[Len(chan)].role = "user"
    /\ chan[Len(chan)].input = inp
    /\ ThisTurn(chan[Len(chan)])

Count(h, role) == Cardinality({i \in DOMAIN h : h[i].role = role})

\* C19: resending the history never duplicates it.  No message is stored
\* twice, and every step adds to a history exactly the messages it produced:
\* an accepted turn one user message, a model call that returns one assistant
\* message, a tools step one result per call, nothing else and nothing on
\* another thread, everything stored before staying where it was.  After n
\* completed tool-free turns a history so holds n user and n assistant
\* messages.
C19_HistoryNeverDuplicated ==
  /\ [](\A t \in Threads : \A i, j \in DOMAIN History(t) :
           History(t)[i].id = History(t)[j].id => i = j)
  /\ [][\A t \in Threads :
          LET began == turnNo' = turnNo + 1 /\ last' = "running" /\ tid' = t
              answered == /\ turnNo' = turnNo /\ tid = t
                          /\ modelCalls' = modelCalls + 1 /\ last' # "failed"
              ran == turnNo' = turnNo /\ tid = t /\ toolCalls' > toolCalls
          IN /\ Count(store'[t], "user")
                  = Count(store[t], "user") + (IF began THEN 1 ELSE 0)
             /\ Count(store'[t], "assistant")
                  = Count(store[t], "assistant") + (IF answered THEN 1 ELSE 0)
             /\ Count(store'[t], "tool")
                  = Count(store[t], "tool")
                    + (IF ran THEN toolCalls' - toolCalls ELSE 0)
             /\ SubSeq(store'[t], 1, Len(store[t])) = store[t]]_vars

\* two tool-free turns have completed on one thread
C19_Witness ==
  /\ turnNo = 2
  /\ pc = "idle"
  /\ last = "ok"
  /\ rounds = 0
  /\ Count(History(tid), "user") = 2
  /\ Count(History(tid), "assistant") = 2
  /\ Count(History(tid), "tool") = 0

Ids(h) == {h[i].id : i \in DOMAIN h}

\* C20: threads are isolated, however the turns of two callers interleave.  A
\* step changes the stored history of the thread of the call that takes it
\* and of no other thread, and the message list of a running turn shares no
\* message with the history of any thread but its own.
C20_ThreadsIsolated ==
  /\ [][\A t \in Threads :
          store'[t] # store[t] =>
             \/ bVars' = bVars /\ t = tid'
             \/ aLocal' = aLocal /\ t = tidB']_vars
  /\ [](\A t \in Threads :
          /\ (last = "running" /\ t # tid) =>
                Ids(chan) \cap Ids(History(t)) = {}
          /\ (lastB = "running" /\ t # tidB) =>
                Ids(chanB) \cap Ids(History(t)) = {})

\* both threads hold a completed turn, the two turns having overlapped
C20_Witness ==
  /\ tid # tidB
  /\ pc = "idle" /\ last = "ok"
  /\ pcB = "idle" /\ lastB = "ok"
  /\ firstId < firstIdB
  /\ chan[Len(chan)].id > firstIdB
  /\ History(tid) = chan
  /\ History(tidB) = chanB
  /\ Len(chan) >= 3 /\ Len(chanB) >= 3

====
